---------------------------- MODULE Spec2Model ----------------------------
(***************************************************************************)
(* A model of met_professional.py: the text helpers (normalize_text,       *)
(* detect_historical_period), the image fetcher (download_image) and the   *)
(* three-step pipeline of download_iran_pottery with its two thread pools. *)
(* Strings are TLA+ strings; Len, SubSeq and \o act on them character by   *)
(* character.                                                              *)
(***************************************************************************)
EXTENDS Integers, Sequences, FiniteSets, TLC

VARIABLES
    \* normalize_text: the argument, the value returned, the value returned
    \* when the result is passed in again, and the number of calls made
    text, norm1, norm2, norm_calls,
    \* detect_historical_period: the record passed in and the pair returned
    obj_data, classification,
    \* download_image: position in the retry loop, the attempts made so far,
    \* the destination file, the value returned, whether time.sleep(2) ran
    \* since the last request
    dl_pc, attempts, file, dl_result, slept,
    \* download_iran_pottery
    pc, max_images, query, all_ids, grp_futures, groups, target_per_group,
    selection, sampled, dl_futures, metadata, files, saved

normVars == <<text, norm1, norm2, norm_calls>>
classVars == <<obj_data, classification>>
dlVars == <<dl_pc, attempts, file, dl_result, slept>>
pipeVars == <<pc, max_images, query, all_ids, grp_futures, groups,
              target_per_group, selection, sampled, dl_futures, metadata,
              files, saved>>
vars == <<normVars, classVars, dlVars, pipeVars>>

-----------------------------------------------------------------------------
(* Bounds of the model *)

\* longest tail appended to the padding of a normalize_text argument
MaxTail == 4
\* number of object IDs the search endpoint can return
MaxObjects == 3
\* largest small value tried for CONFIG['max_images'] beside the shipped one
MaxImagesCap == 2

-----------------------------------------------------------------------------
(* CONFIG *)

CONFIG_retries == 4
CONFIG_max_images == 200
TruncateLen == 500
MinImageBytes == 10 * 1024
NumQueries == 16
PoolSize == 16

PreIslamic ==
    << "Silk", "Elam", "Achaemenid", "Parthian", "Sassanian",
       "Chogha Zanbil", "Tappeh Sialk", "Haft Tepe",
       "Kuh-e Khwaja", "Arg-e Bam", "Persepolis", "Ancient Iran",
       "Zagros", "Luristan" >>

Islamic ==
    << "Islamic", "Ilkhanid", "Timurid", "Safavid", "Qajar",
       "Ottoman", "Seljuk", "Mongol", "Abbasid", "Umayyad" >>

BCIndicators == << "bc", "b.c.", "before christ" >>

ADIndicators == << "islamic", "ad", "a.d.", "hijri", "ah" >>

-----------------------------------------------------------------------------
(* Built-ins: max and min of two numbers, and strings *)

Max(a, b) == IF a >= b THEN a ELSE b
Min(a, b) == IF a <= b THEN a ELSE b

Chr(s, i) == SubSeq(s, i, i)

UpperCase == "ABCDEFGHIJKLMNOPQRSTUVWXYZ"
LowerCase == "abcdefghijklmnopqrstuvwxyz"

\* str.lower() on one character
LowerChr(c) ==
    IF \E i \in 1..Len(UpperCase) : Chr(UpperCase, i) = c
    THEN Chr(LowerCase, CHOOSE i \in 1..Len(UpperCase) : Chr(UpperCase, i) = c)
    ELSE c

\* str.lower() on the characters lo..hi of s
RECURSIVE LowerRange(_, _, _)
LowerRange(s, lo, hi) ==
    IF lo > hi THEN ""
    ELSE IF lo = hi THEN LowerChr(Chr(s, lo))
    ELSE LET mid == (lo + hi) \div 2
         IN  LowerRange(s, lo, mid) \o LowerRange(s, mid + 1, hi)

\* str.lower()
Lower(s) == LowerRange(s, 1, Len(s))

\* the Python test `needle in hay` on two strings
Contains(hay, needle) ==
    \E i \in 1..(Len(hay) - Len(needle) + 1) :
        SubSeq(hay, i, i + Len(needle) - 1) = needle

\* the characters the regular expression class \s matches, among those used
IsSpace(c) == c \in {" ", "\t", "\n"}

\* c * n
RECURSIVE Rep(_, _)
Rep(c, n) ==
    IF n = 0 THEN ""
    ELSE IF n = 1 THEN c
    ELSE Rep(c, n \div 2) \o Rep(c, n - n \div 2)

-----------------------------------------------------------------------------
(* normalize_text *)

\* re.sub(r'\s+', ' ', text): every maximal run of whitespace becomes one space
\* what the substitution leaves of character i: a space for the first
\* character of a run of whitespace, nothing for the others of the run
CollapseChr(s, i) ==
    IF ~IsSpace(Chr(s, i)) THEN Chr(s, i)
    ELSE IF i > 1 /\ IsSpace(Chr(s, i - 1)) THEN ""
    ELSE " "

RECURSIVE CollapseRange(_, _, _)
CollapseRange(s, lo, hi) ==
    IF lo > hi THEN ""
    ELSE IF lo = hi THEN CollapseChr(s, lo)
    ELSE LET mid == (lo + hi) \div 2
         IN  CollapseRange(s, lo, mid) \o CollapseRange(s, mid + 1, hi)

Collapse(s) == CollapseRange(s, 1, Len(s))

\* str.strip()
Strip(s) ==
    LET keep == {i \in 1..Len(s) : ~IsSpace(Chr(s, i))}
    IN  IF keep = {} THEN ""
        ELSE LET lo == CHOOSE i \in keep : \A j \in keep : i <= j
                 hi == CHOOSE i \in keep : \A j \in keep : j <= i
             IN  SubSeq(s, lo, hi)

\* text[:500]
Truncate(s) == IF Len(s) <= TruncateLen THEN s ELSE SubSeq(s, 1, TruncateLen)

normalize_text(s) ==
    IF s = "" THEN "" ELSE Truncate(Strip(Collapse(s)))

-----------------------------------------------------------------------------
(* detect_historical_period *)

\* KeywordIn with a slip: the keyword is not lower-cased
KeywordIn_CaseSensitive(period_name, title, culture, period, object_date) ==
    \/ Contains(title, period_name)
    \/ Contains(culture, period_name)
    \/ Contains(period, period_name)
    \/ Contains(object_date, period_name)

\* period_name.lower() in title or ... in culture or ... in period or
\* ... in object_date, on the four lower-cased fields
KeywordIn(period_name, title, culture, period, object_date) ==
    \/ Contains(title, Lower(period_name))
    \/ Contains(culture, Lower(period_name))
    \/ Contains(period, Lower(period_name))
    \/ Contains(object_date, Lower(period_name))

\* the for loop over one keyword table from entry i on: the index of the
\* entry the loop returns at, or 0 when the loop runs to its end
RECURSIVE ScanTable(_, _, _, _, _, _)
ScanTable(table, i, title, culture, period, object_date) ==
    IF i > Len(table) THEN 0
    ELSE IF KeywordIn(table[i], title, culture, period, object_date)
         THEN i
         ELSE ScanTable(table, i + 1, title, culture, period, object_date)

\* any(x in object_date for x in indicators)
AnyIn(indicators, object_date) ==
    \E i \in 1..Len(indicators) : Contains(object_date, indicators[i])

detect_historical_period(d) ==
    LET title       == Lower(d.title)
        culture     == Lower(d.culture)
        period      == Lower(d.period)
        object_date == Lower(d.objectDate)
        pre == ScanTable(PreIslamic, 1, title, culture, period, object_date)
        isl == ScanTable(Islamic, 1, title, culture, period, object_date)
    IN  IF pre # 0 THEN <<"pre_islamic", PreIslamic[pre]>>
        ELSE IF isl # 0 THEN <<"islamic", Islamic[isl]>>
        ELSE IF AnyIn(BCIndicators, object_date)
             THEN <<"pre_islamic", "Ancient Iran">>
        ELSE IF AnyIn(ADIndicators, object_date)
             THEN <<"islamic", "Islamic Period">>
        ELSE <<"unknown", "Unknown">>

\* pname.replace(' ', '_')
RECURSIVE UnderscoreFrom(_, _)
UnderscoreFrom(s, i) ==
    IF i > Len(s) THEN ""
    ELSE (IF Chr(s, i) = " " THEN "_" ELSE Chr(s, i))
             \o UnderscoreFrom(s, i + 1)

-----------------------------------------------------------------------------
(* Arguments the helpers are called with *)

NormTailChars == {"a", " ", "\t"}

RECURSIVE Tails(_)
Tails(n) ==
    IF n = 0 THEN {""}
    ELSE LET shorter == Tails(n - 1)
         IN  shorter \cup {t \o c : t \in {u \in shorter : Len(u) = n - 1},
                                    c \in NormTailChars}

\* short strings, and strings that reach the truncation length
NormInputs ==
    {Rep("a", n) \o t : n \in {0, TruncateLen - 3, TruncateLen - 2},
                        t \in Tails(MaxTail)}

Titles == {"", "Safavid and Qajar tile", "QAJAR bowl, later Safavid mount",
           "Jar from PERSEPOLIS", "Silk Road Islamic ware", "Bowl"}
Cultures == {"", "Iran", "Timurid", "Elamite"}
Periods == {"", "Sassanian", "seljuk period"}
ObjectDates == {"", "400 BC", "ca. 900 B.C.", "12th century",
                "ca. 1200 A.D.", "AH 1100", "before Christ", "1250"}

ObjectRecords ==
    [title : Titles, culture : Cultures, period : Periods,
     objectDate : ObjectDates]

NoClassification == <<>>

\* a record with its four text fields empty
NoData == [title |-> "", culture |-> "", period |-> "", objectDate |-> ""]

-----------------------------------------------------------------------------
(* The helpers at rest, for the specifications that do not call them *)

NormIdle == text = "" /\ norm1 = "" /\ norm2 = "" /\ norm_calls = 0

ClassIdle ==
    /\ obj_data = NoData
    /\ classification = NoClassification

-----------------------------------------------------------------------------
(* download_image *)

NoFile == [exists |-> FALSE, bytes |-> 0]

\* what requests.get, raise_for_status and resp.content give one attempt:
\* an exception of the transport, a status raise_for_status raises on, or a
\* payload of some size
PayloadSizes == {0, MinImageBytes - 1, MinImageBytes, MinImageBytes + 1}

Responses ==
    [status : {"transport_error", "bad_status"}, size : {0}]
        \cup [status : {"ok"}, size : PayloadSizes]

\* what open(filepath, 'wb') and f.write do when they are reached: both work,
\* open raises, or write raises after open created the file and `kept` bytes
\* of the payload reached it
DiskOutcomes ==
    [io : {"written", "open_error"}, kept : {0}]
        \cup [io : {"write_error"}, kept : {0, 1}]

\* TooSmall with a slip: <= for <
TooSmall_Inclusive(size) == size <= MinImageBytes

\* len(resp.content) < 10 * 1024
TooSmall(size) == size < MinImageBytes

\* One pass through the body of the for loop, on the file f: the file it
\* leaves, what it wrote, and how the pass ends ("return": return True,
\* "continue": the continue statement, "except": the except clause)
AttemptEffect(f, resp, disk) ==
    IF resp.status # "ok"
    THEN [file |-> f, wrote |-> "no", ends |-> "except"]
    ELSE IF TooSmall(resp.size)
    THEN [file |-> f, wrote |-> "no", ends |-> "continue"]
    ELSE IF disk.io = "open_error"
    THEN [file |-> f, wrote |-> "no", ends |-> "except"]
    ELSE IF disk.io = "write_error"
    THEN [file |-> [exists |-> TRUE,
                    bytes |-> IF disk.kept = 0 THEN 0 ELSE resp.size - 1],
          wrote |-> "partial", ends |-> "except"]
    ELSE [file |-> [exists |-> TRUE, bytes |-> resp.size],
          wrote |-> "full", ends |-> "return"]

\* where the loop goes after a failed pass, n passes made
AfterFailure(n) == IF n < CONFIG_retries THEN "request" ELSE "returned"

DownloadStart ==
    /\ dl_pc = "request"
    /\ attempts = <<>>
    /\ file = NoFile
    /\ dl_result = FALSE
    /\ slept = FALSE

DownloadIdle ==
    /\ dl_pc = "idle"
    /\ attempts = <<>>
    /\ file = NoFile
    /\ dl_result = FALSE
    /\ slept = FALSE

\* the try block of one iteration
Attempt ==
    /\ dl_pc = "request"
    /\ Len(attempts) < CONFIG_retries
    /\ \E resp \in Responses, disk \in DiskOutcomes :
         LET e == AttemptEffect(file, resp, disk)
         IN  /\ attempts' = Append(attempts,
                    [status |-> resp.status, size |-> resp.size,
                     wrote |-> e.wrote, ends |-> e.ends])
             /\ file' = e.file
             /\ slept' = FALSE
             /\ dl_pc' = CASE e.ends = "return" -> "returned"
                           [] e.ends = "except" -> "sleep"
                           [] OTHER -> AfterFailure(Len(attempts) + 1)
             /\ dl_result' = (e.ends = "return")
    /\ UNCHANGED <<normVars, classVars, pipeVars>>

\* the except clause: time.sleep(2), then the next iteration or return False
Sleep ==
    /\ dl_pc = "sleep"
    /\ slept' = TRUE
    /\ dl_pc' = AfterFailure(Len(attempts))
    /\ UNCHANGED <<attempts, file, dl_result>>
    /\ UNCHANGED <<normVars, classVars, pipeVars>>

\* download_image(url, filepath) run to its end on a file f, the i-th pass
\* and the following ones taking their response and disk outcome from `run`
RECURSIVE download_image(_, _, _)
download_image(f, run, i) ==
    IF i > CONFIG_retries THEN [file |-> f, result |-> FALSE]
    ELSE LET e == AttemptEffect(f, run[i].resp, run[i].disk)
         IN  IF e.ends = "return" THEN [file |-> e.file, result |-> TRUE]
             ELSE download_image(e.file, run, i + 1)

-----------------------------------------------------------------------------
(* download_iran_pottery: what the collection API and the image host answer *)

ObjectIDs == 1..MaxObjects

\* values of CONFIG['max_images']: the shipped one and small ones
MaxImagesChoices == (1..MaxImagesCap) \cup {CONFIG_max_images}

\* object records the objects endpoint answers with
ApiRecords ==
    { [title |-> "Safavid and Qajar tile", culture |-> "Iran",
       period |-> "", objectDate |-> "1250"],
      [title |-> "", culture |-> "", period |-> "", objectDate |-> "400 BC"] }

\* detect_historical_period on each of them
Classified == [d \in ApiRecords |-> detect_historical_period(d)]

\* runs of download_image: the response and the disk outcome of each pass
Pass(status, size, io) ==
    [resp |-> [status |-> status, size |-> size],
     disk |-> [io |-> io, kept |-> 0]]

ImageRuns ==
    { [i \in 1..CONFIG_retries |->
          IF i = 1 THEN Pass("transport_error", 0, "written")
                   ELSE Pass("ok", MinImageBytes, "written")],
      [i \in 1..CONFIG_retries |->
          IF i = 1 THEN Pass("bad_status", 0, "written")
                   ELSE Pass("ok", MinImageBytes - 1, "written")] }

-----------------------------------------------------------------------------
(* download_iran_pottery: helpers *)

Range(f) == {f[i] : i \in DOMAIN f}

RECURSIVE Flatten(_)
Flatten(ss) == IF ss = <<>> THEN <<>> ELSE Head(ss) \o Flatten(Tail(ss))

\* Prefix with a slip: the slice is left out
Prefix_NoTruncation(seq, n) == seq

\* sampled[:n]
Prefix(seq, n) == SubSeq(seq, 1, Min(n, Len(seq)))

RECURSIVE SeqMin(_)
SeqMin(ns) ==
    IF Len(ns) = 1 THEN ns[1] ELSE Min(Head(ns), SeqMin(Tail(ns)))

\* groups.setdefault(pname, []).append(obj_id) on the insertion-ordered dict
GroupAppend(gs, pname, obj_id) ==
    IF \E g \in 1..Len(gs) : gs[g].pname = pname
    THEN [g \in 1..Len(gs) |->
            IF gs[g].pname = pname
            THEN [gs[g] EXCEPT !.ids = Append(@, obj_id)]
            ELSE gs[g]]
    ELSE Append(gs, [pname |-> pname, ids |-> <<obj_id>>])

\* [len(ids) for ids in groups.values() if ids]
NonEmptySizes(gs) ==
    LET keep == SelectSeq(gs, LAMBDA g : g.ids # <<>>)
    IN  [g \in 1..Len(keep) |-> Len(keep[g].ids)]

\* max(1, min(min_count, CONFIG['max_images'] // len(groups)))
TargetPerGroup(min_count, cap, n_groups) ==
    Max(1, Min(min_count, cap \div n_groups))

\* Selections with a slip: random.choices, which draws with replacement
Selections_WithReplacement(ids, target) ==
    IF ids = <<>> THEN {<<>>}
    ELSE IF Len(ids) <= target THEN {ids}
    ELSE [1..target -> Range(ids)]

\* what one group adds to sampled: all of ids, or random.sample(ids, target),
\* any `target` distinct members in any order
Selections(ids, target) ==
    IF ids = <<>> THEN {<<>>}
    ELSE IF Len(ids) <= target THEN {ids}
    ELSE {s \in [1..target -> Range(ids)] :
             \A i, j \in 1..target : i # j => s[i] # s[j]}

\* the selections of all groups, in the order of groups.items()
RECURSIVE AllSelections(_, _)
AllSelections(gs, target) ==
    IF gs = <<>> THEN {<<>>}
    ELSE {<<s>> \o rest : s \in Selections(Head(gs).ids, target),
                          rest \in AllSelections(Tail(gs), target)}

\* ImgPath with a slip: the file name does not hold the object ID
ImgPath_NamedByPeriod(era, pname, obj_id) ==
    <<era, UnderscoreFrom(pname, 1), 0>>

\* os.path.join(image_dir, era, pname.replace(' ', '_'), f"{obj_id}.jpg")
ImgPath(era, pname, obj_id) == <<era, UnderscoreFrom(pname, 1), obj_id>>

\* the dict process_pottery_object returns
MetadataRecord(obj_id, data, img_path) ==
    [objectID |-> obj_id,
     title |-> normalize_text(data.title),
     era_classification |-> Classified[data][1],
     historical_period |-> Classified[data][2],
     local_path |-> img_path]

\* what a worker returns: None, or a value
None == [none |-> TRUE]
Some(v) == [none |-> FALSE, value |-> v]

\* a future of the grouping pool: its state, the record the objects endpoint
\* answered with, and what fetch_and_group returned
Future(state, data, result) ==
    [state |-> state, data |-> data, result |-> result]

Running(futures) == {k \in DOMAIN futures : futures[k].state = "running"}

\* AllDrained with a slip: the main thread does not wait
AllDrained_NoWait(futures) == TRUE

\* every future has completed and the main thread has taken its result: the
\* as_completed loop is over and the with block has shut the pool down
AllDrained(futures) == \A k \in DOMAIN futures : futures[k].state = "drained"

NotSaved == [written |-> FALSE, json |-> <<>>, csv |-> FALSE]

PipeStart ==
    /\ pc = "search"
    /\ max_images \in MaxImagesChoices
    /\ query = 0
    /\ all_ids = {}
    /\ grp_futures = <<>>
    /\ groups = <<>>
    /\ target_per_group = 0
    /\ selection = <<>>
    /\ sampled = <<>>
    /\ dl_futures = <<>>
    /\ metadata = <<>>
    /\ files = {}
    /\ saved = NotSaved

PipeIdle ==
    /\ pc = "idle"
    /\ max_images = CONFIG_max_images
    /\ query = 0
    /\ all_ids = {}
    /\ grp_futures = <<>>
    /\ groups = <<>>
    /\ target_per_group = 0
    /\ selection = <<>>
    /\ sampled = <<>>
    /\ dl_futures = <<>>
    /\ metadata = <<>>
    /\ files = {}
    /\ saved = NotSaved

-----------------------------------------------------------------------------
(* download_iran_pottery: step 1, the search queries, one after the other *)

\* one iteration of `for q in search_queries`: the request fails and the
\* query is skipped, or its objectIDs (none for null) join all_ids
Search ==
    /\ pc = "search"
    /\ query < NumQueries
    /\ query' = query + 1
    /\ \/ UNCHANGED all_ids
       \/ \E ids \in SUBSET ObjectIDs : all_ids' = all_ids \cup ids
    /\ UNCHANGED <<pc, max_images, grp_futures, groups, target_per_group,
                   selection, sampled, dl_futures, metadata, files, saved>>
    /\ UNCHANGED <<normVars, classVars, dlVars>>

\* the loop is over: executor.submit(fetch_and_group, obj_id) for every ID
SubmitGrouping ==
    /\ pc = "search"
    /\ query = NumQueries
    /\ pc' = "grouping"
    /\ grp_futures' = [obj_id \in all_ids |-> Future("pending", NoData, None)]
    /\ UNCHANGED <<max_images, query, all_ids, groups, target_per_group,
                   selection, sampled, dl_futures, metadata, files, saved>>
    /\ UNCHANGED <<normVars, classVars, dlVars>>

-----------------------------------------------------------------------------
(* step 2: grouping *)

\* a thread of the pool takes up fetch_and_group(obj_id)
GroupWorkerStart(obj_id) ==
    /\ obj_id \in DOMAIN grp_futures
    /\ grp_futures[obj_id].state = "pending"
    /\ Cardinality(Running(grp_futures)) < PoolSize
    /\ grp_futures' = [grp_futures EXCEPT ![obj_id].state = "running"]
    /\ UNCHANGED <<pc, max_images, query, all_ids, groups, target_per_group,
                   selection, sampled, dl_futures, metadata, files, saved>>
    /\ UNCHANGED <<normVars, classVars, dlVars>>

\* fetch_and_group returns: None after an exception of the request, of the
\* JSON parser or of the classifier, else (pname, obj_id)
GroupWorkerFinish(obj_id) ==
    /\ obj_id \in DOMAIN grp_futures
    /\ grp_futures[obj_id].state = "running"
    /\ \/ grp_futures' = [grp_futures EXCEPT ![obj_id] =
                Future("finished", NoData, None)]
       \/ \E d \in ApiRecords :
            grp_futures' = [grp_futures EXCEPT ![obj_id] =
                Future("finished", d, Some(<<Classified[d][2], obj_id>>))]
    /\ UNCHANGED <<pc, max_images, query, all_ids, groups, target_per_group,
                   selection, sampled, dl_futures, metadata, files, saved>>
    /\ UNCHANGED <<normVars, classVars, dlVars>>

\* the main thread takes one completed future from as_completed
DrainGroup(obj_id) ==
    /\ pc = "grouping"
    /\ obj_id \in DOMAIN grp_futures
    /\ grp_futures[obj_id].state = "finished"
    /\ LET result == grp_futures[obj_id].result
       IN  groups' = IF result.none THEN groups
                     ELSE GroupAppend(groups, result.value[1], result.value[2])
    /\ grp_futures' = [grp_futures EXCEPT ![obj_id].state = "drained"]
    /\ UNCHANGED <<pc, max_images, query, all_ids, target_per_group,
                   selection, sampled, dl_futures, metadata, files, saved>>
    /\ UNCHANGED <<normVars, classVars, dlVars>>

\* after the with block: min_count, target_per_group, sampled, and the
\* submission of process_and_download for every sampled ID. min() of an
\* empty sequence raises ValueError, which nothing catches
Sample ==
    /\ pc = "grouping"
    /\ AllDrained(grp_futures)
    /\ IF NonEmptySizes(groups) = <<>>
       THEN /\ pc' = "aborted"
            /\ UNCHANGED <<target_per_group, selection, sampled, dl_futures>>
       ELSE LET min_count == SeqMin(NonEmptySizes(groups))
                target == TargetPerGroup(min_count, max_images, Len(groups))
            IN  /\ target_per_group' = target
                /\ selection' \in AllSelections(groups, target)
                /\ sampled' = Prefix(Flatten(selection'), max_images)
                /\ dl_futures' = [k \in 1..Len(sampled') |->
                       [obj_id |-> sampled'[k], state |-> "pending",
                        data |-> NoData, img_path |-> <<>>, result |-> None]]
                /\ pc' = "download"
    /\ UNCHANGED <<max_images, query, all_ids, grp_futures, groups, metadata,
                   files, saved>>
    /\ UNCHANGED <<normVars, classVars, dlVars>>

-----------------------------------------------------------------------------
(* step 3: process_pottery_object in the pool, then save_metadata *)

\* the file at a path, and the files with the one at a path replaced
FileAt(fs, path) ==
    IF \E f \in fs : f.path = path
    THEN LET f == CHOOSE f \in fs : f.path = path
         IN  [exists |-> TRUE, bytes |-> f.bytes]
    ELSE NoFile

WithFile(fs, path, f) ==
    {g \in fs : g.path # path}
        \cup (IF f.exists THEN {[path |-> path, bytes |-> f.bytes]} ELSE {})

\* the record of an object does not change during a run: the objects
\* endpoint answers step 3 with what it answered step 2 (every sampled ID
\* was answered in step 2), or fails
Refetch(obj_id) ==
    IF obj_id \in DOMAIN grp_futures /\ ~grp_futures[obj_id].result.none
    THEN {grp_futures[obj_id].data}
    ELSE ApiRecords

\* a thread of the pool takes up process_and_download(obj_id) and fetches the
\* object: the request or the JSON parser raises or there is no primaryImage
\* (the exception is caught and None returned), or the record is classified
\* and the image path is set
DownloadWorkerStart(k) ==
    /\ k \in DOMAIN dl_futures
    /\ dl_futures[k].state = "pending"
    /\ Cardinality(Running(dl_futures)) < PoolSize
    /\ \/ dl_futures' = [dl_futures EXCEPT ![k].state = "finished"]
       \/ \E d \in Refetch(dl_futures[k].obj_id) :
            dl_futures' = [dl_futures EXCEPT ![k] =
                [@ EXCEPT !.state = "running",
                          !.data = d,
                          !.img_path = ImgPath(Classified[d][1],
                                               Classified[d][2],
                                               dl_futures[k].obj_id)]]
    /\ UNCHANGED <<pc, max_images, query, all_ids, grp_futures, groups,
                   target_per_group, selection, sampled, metadata, files, saved>>
    /\ UNCHANGED <<normVars, classVars, dlVars>>

\* download_image runs on img_path; on True the record is returned, on False
\* ConnectionError is raised, caught, and None returned
DownloadWorkerFinish(k) ==
    /\ k \in DOMAIN dl_futures
    /\ dl_futures[k].state = "running"
    /\ \E run \in ImageRuns :
         LET w == dl_futures[k]
             r == download_image(FileAt(files, w.img_path), run, 1)
         IN  /\ files' = WithFile(files, w.img_path, r.file)
             /\ dl_futures' = [dl_futures EXCEPT ![k] =
                    [@ EXCEPT !.state = "finished",
                              !.result = IF r.result
                                         THEN Some(MetadataRecord(w.obj_id, w.data,
                                                                  w.img_path))
                                         ELSE None]]
    /\ UNCHANGED <<pc, max_images, query, all_ids, grp_futures, groups,
                   target_per_group, selection, sampled, metadata, saved>>
    /\ UNCHANGED <<normVars, classVars, dlVars>>

\* the main thread takes one completed future from as_completed
DrainDownload(k) ==
    /\ pc = "download"
    /\ k \in DOMAIN dl_futures
    /\ dl_futures[k].state = "finished"
    /\ LET result == dl_futures[k].result
       IN  metadata' = IF result.none THEN metadata
                       ELSE Append(metadata, result.value)
    /\ dl_futures' = [dl_futures EXCEPT ![k].state = "drained"]
    /\ UNCHANGED <<pc, max_images, query, all_ids, grp_futures, groups,
                   target_per_group, selection, sampled, files, saved>>
    /\ UNCHANGED <<normVars, classVars, dlVars>>

\* after the with block: save_metadata(metadata); the JSON file always, the
\* CSV file when there is a record
SaveMetadata ==
    /\ pc = "download"
    /\ AllDrained(dl_futures)
    /\ saved' = [written |-> TRUE, json |-> metadata, csv |-> metadata # <<>>]
    /\ pc' = "done"
    /\ UNCHANGED <<max_images, query, all_ids, grp_futures, groups,
                   target_per_group, selection, sampled, dl_futures, metadata,
                   files>>
    /\ UNCHANGED <<normVars, classVars, dlVars>>

-----------------------------------------------------------------------------
(* The helpers called on their own *)

\* normalize_text(text), then normalize_text of what it returned
Normalize ==
    /\ norm_calls = 0
    /\ norm1' = normalize_text(text)
    /\ norm_calls' = 1
    /\ UNCHANGED <<text, norm2>>
    /\ UNCHANGED <<classVars, dlVars, pipeVars>>

NormalizeAgain ==
    /\ norm_calls = 1
    /\ norm2' = normalize_text(norm1)
    /\ norm_calls' = 2
    /\ UNCHANGED <<text, norm1>>
    /\ UNCHANGED <<classVars, dlVars, pipeVars>>

Classify ==
    /\ classification = NoClassification
    /\ classification' = detect_historical_period(obj_data)
    /\ UNCHANGED obj_data
    /\ UNCHANGED <<normVars, dlVars, pipeVars>>

-----------------------------------------------------------------------------
(* Specifications *)

\* download_iran_pottery, the program's entry point
Init == NormIdle /\ ClassIdle /\ DownloadIdle /\ PipeStart

Next ==
    \/ Search
    \/ SubmitGrouping
    \/ \E obj_id \in ObjectIDs : GroupWorkerStart(obj_id)
    \/ \E obj_id \in ObjectIDs : GroupWorkerFinish(obj_id)
    \/ \E obj_id \in ObjectIDs : DrainGroup(obj_id)
    \/ Sample
    \/ \E k \in 1..MaxObjects : DownloadWorkerStart(k)
    \/ \E k \in 1..MaxObjects : DownloadWorkerFinish(k)
    \/ \E k \in 1..MaxObjects : DrainDownload(k)
    \/ SaveMetadata

Spec == Init /\ [][Next]_vars

\* download_image called on a fresh destination path
InitDownload == NormIdle /\ ClassIdle /\ DownloadStart /\ PipeIdle

NextDownload == Attempt \/ Sleep

SpecDownload == InitDownload /\ [][NextDownload]_vars

\* normalize_text called on a string, and again on its result
InitNormalize ==
    /\ text \in NormInputs
    /\ norm1 = ""
    /\ norm2 = ""
    /\ norm_calls = 0
    /\ ClassIdle /\ DownloadIdle /\ PipeIdle

NextNormalize == Normalize \/ NormalizeAgain

SpecNormalize == InitNormalize /\ [][NextNormalize]_vars

\* detect_historical_period called on a record
InitClassify ==
    /\ obj_data \in ObjectRecords
    /\ classification = NoClassification
    /\ NormIdle /\ DownloadIdle /\ PipeIdle

NextClassify == Classify

SpecClassify == InitClassify /\ [][NextClassify]_vars

-----------------------------------------------------------------------------
(* Properties of download_image, under SpecDownload *)

LastAttempt == attempts[Len(attempts)]

C2_NoFileAfterExhaustion ==
    (dl_pc = "returned" /\ ~dl_result) =>
        /\ Len(attempts) <= 4
        /\ ~file.exists

\* C8: a request that follows a failed pass is never issued before
\* time.sleep(2) has run since that pass.
C8_SleepBeforeRetry ==
    (dl_pc = "request" /\ attempts # <<>>) => slept

-----------------------------------------------------------------------------
(* Properties of normalize_text, under SpecNormalize *)

\* C5: normalize_text(normalize_text(s)) = normalize_text(s), and the result
\* has at most 500 characters, no whitespace at either end and no two
\* whitespace characters in a row.
C5_Idempotent ==
    norm_calls = 2 =>
         /\ norm2 = norm1
         /\ Len(norm1) <= 500
         /\ norm1 # "" =>
              ~IsSpace(Chr(norm1, 1)) /\ ~IsSpace(Chr(norm1, Len(norm1)))
         /\ \A i \in 1..(Len(norm1) - 1) :
              ~(IsSpace(Chr(norm1, i)) /\ IsSpace(Chr(norm1, i + 1)))

-----------------------------------------------------------------------------
(* Properties of detect_historical_period, under SpecClassify *)

\* the smallest member of a non-empty set of numbers
Least(S) == CHOOSE n \in S : \A m \in S : n <= m

\* the entries of a keyword table that occur, whatever the case, in one of
\* the four fields
Occurring(table, d) ==
    {i \in 1..Len(table) :
        \E f \in {d.title, d.culture, d.period, d.objectDate} :
            Contains(Lower(f), Lower(table[i]))}

\* the rule the classifier is to follow
ReferenceRule(d) ==
    IF Occurring(PreIslamic, d) # {}
    THEN <<"pre_islamic", PreIslamic[Least(Occurring(PreIslamic, d))]>>
    ELSE IF Occurring(Islamic, d) # {}
    THEN <<"islamic", Islamic[Least(Occurring(Islamic, d))]>>
    ELSE IF \E x \in {"bc", "b.c.", "before christ"} :
                Contains(Lower(d.objectDate), x)
    THEN <<"pre_islamic", "Ancient Iran">>
    ELSE IF \E x \in {"islamic", "ad", "a.d.", "hijri", "ah"} :
                Contains(Lower(d.objectDate), x)
    THEN <<"islamic", "Islamic Period">>
    ELSE <<"unknown", "Unknown">>

\* C6: the pair returned is the one of the reference rule: the first keyword
\* of the pre-Islamic table found in a field, else the first of the Islamic
\* table, else the date fallbacks, else (unknown, Unknown); a title with
\* Safavid and Qajar gives Safavid, the date 400 BC alone gives
\* (pre_islamic, Ancient Iran), four empty fields give (unknown, Unknown).
C6_MatchesReference ==
    classification # NoClassification =>
        /\ classification = ReferenceRule(obj_data)
        /\ LET rest == obj_data.culture = "" /\ obj_data.period = ""
           IN  /\ ( /\ rest /\ obj_data.objectDate = ""
                    /\ obj_data.title \in {"Safavid and Qajar tile",
                                           "QAJAR bowl, later Safavid mount"} )
                      => classification = <<"islamic", "Safavid">>
               /\ (rest /\ obj_data.title = "" /\ obj_data.objectDate = "400 BC")
                      => classification = <<"pre_islamic", "Ancient Iran">>
               /\ (rest /\ obj_data.title = "" /\ obj_data.objectDate = "")
                      => classification = <<"unknown", "Unknown">>

\* a title naming Qajar before Safavid has been classified as Safavid
C6_Witness ==
    /\ obj_data.title = "QAJAR bowl, later Safavid mount"
    /\ obj_data.culture = "" /\ obj_data.period = ""
    /\ classification = <<"islamic", "Safavid">>

-----------------------------------------------------------------------------
(* Properties of download_iran_pottery, under Spec *)

Sampled == pc \in {"download", "done"}

Members(seq, S) == {k \in 1..Len(seq) : seq[k] \in S}

NoRepeat(seq) == \A i, j \in 1..Len(seq) : i # j => seq[i] # seq[j]

\* C3: a failure on one object never aborts the run, also when it leaves
\* no group at all: the run is never aborted after a grouping fetch failed.
C3_FailureContained ==
    ~( /\ pc = "aborted"
       /\ \E obj_id \in DOMAIN grp_futures : grp_futures[obj_id].result.none )

\* C4: with target = max(1, min(smallest non-empty group, max_images div
\* number of groups)), sampled has at most max_images entries, a group no
\* larger than target adds all its members, a larger group adds exactly
\* target of its members, and no group adds an ID twice.
C4_SamplingBounds ==
    Sampled =>
        LET sizes == {Len(groups[g].ids) : g \in 1..Len(groups)} \ {0}
            quota == max_images \div Len(groups)
            floor == IF Least(sizes) <= quota THEN Least(sizes) ELSE quota
            target == IF floor >= 1 THEN floor ELSE 1
        IN  /\ target_per_group = target
            /\ Len(sampled) <= max_images
            /\ Len(selection) = Len(groups)
            /\ \A g \in 1..Len(groups) :
                 LET ids == groups[g].ids
                 IN  /\ Len(ids) <= target => selection[g] = ids
                     /\ Len(ids) > target =>
                          /\ Len(selection[g]) = target
                          /\ Range(selection[g]) \subseteq Range(ids)
                          /\ Cardinality(Members(sampled, Range(ids))) <= target
                     /\ NoRepeat(selection[g])
            /\ \A k \in 1..Len(sampled) : sampled[k] = Flatten(selection)[k]

\* a group of three with a target of two has added two of its members
C4_Witness ==
    /\ Sampled
    /\ Len(groups) = 1 /\ Len(groups[1].ids) = 3
    /\ target_per_group = 2
    /\ Len(sampled) = 2

\* C7: when save_metadata is called, there is exactly one record for every
\* sampled ID whose image was downloaded and none for any other ID, no ID
\* has two records, and there are at most as many records as sampled IDs,
\* which are at most max_images.
C7_OneRecordPerSuccess ==
    saved.written =>
        /\ saved.json = metadata
        /\ \A obj_id \in ObjectIDs :
             LET records == {i \in 1..Len(saved.json) :
                                saved.json[i].objectID = obj_id}
                 done == /\ \E k \in 1..Len(sampled) : sampled[k] = obj_id
                         /\ \E f \in files :
                              f.path[3] = obj_id /\ f.bytes >= MinImageBytes
             IN  Cardinality(records) = IF done THEN 1 ELSE 0
        /\ \A i \in 1..Len(saved.json) :
             \E f \in files : f.path = saved.json[i].local_path
        /\ Len(saved.json) <= Len(sampled)
        /\ Len(sampled) <= max_images

\* three IDs of one period and max_images = 2: two were sampled and two
\* records written
C7_Witness ==
    /\ saved.written
    /\ max_images = 2
    /\ Cardinality(all_ids) = 3
    /\ Len(groups) = 1 /\ Len(groups[1].ids) = 3
    /\ Len(sampled) = 2
    /\ Len(saved.json) = 2

PhaseRank(p) ==
    CASE p = "search" -> 1
      [] p = "grouping" -> 2
      [] p = "download" -> 3
      [] p = "done" -> 4
      [] OTHER -> 5

\* C9: the phases follow one another in the order search, grouping,
\* sampling, download, write: no grouping worker before the last query, the
\* target only once every grouping result has been drained into groups, no
\* download worker before sampled is final, the write only once every
\* download worker has finished and been drained.
C9_PhaseOrder ==
    /\ [](/\ grp_futures # <<>> => query = NumQueries /\ PhaseRank(pc) >= 2
          /\ pc = "search" => groups = <<>> /\ DOMAIN grp_futures = {}
          /\ (target_per_group # 0 \/ sampled # <<>> \/ pc = "aborted") =>
               /\ \A obj_id \in DOMAIN grp_futures :
                    /\ grp_futures[obj_id].state = "drained"
                    /\ ~grp_futures[obj_id].result.none =>
                         \E g \in 1..Len(groups) :
                            /\ groups[g].pname = grp_futures[obj_id].result.value[1]
                            /\ obj_id \in Range(groups[g].ids)
               /\ DOMAIN grp_futures = all_ids
          /\ dl_futures # <<>> =>
               /\ Sampled
               /\ target_per_group # 0
               /\ Len(dl_futures) = Len(sampled)
               /\ \A k \in DOMAIN dl_futures : dl_futures[k].obj_id = sampled[k]
          /\ saved.written =>
               /\ pc = "done"
               /\ \A k \in DOMAIN dl_futures : dl_futures[k].state = "drained")
    /\ [][/\ pc' # pc =>
               \/ PhaseRank(pc') = PhaseRank(pc) + 1
               \/ pc = "grouping" /\ pc' = "aborted"
          /\ PhaseRank(pc) # 1 => all_ids' = all_ids
          /\ PhaseRank(pc) # 2 => groups' = groups
          /\ Sampled => sampled' = sampled /\ target_per_group' = target_per_group
          /\ PhaseRank(pc) # 3 => metadata' = metadata]_vars

\* a run that went through every phase with two groups and two records
C9_Witness ==
    /\ pc = "done"
    /\ Len(groups) = 2
    /\ Len(saved.json) = 2

WorkerStep ==
    \/ \E obj_id \in ObjectIDs :
          GroupWorkerStart(obj_id) \/ GroupWorkerFinish(obj_id)
    \/ \E k \in 1..MaxObjects :
          DownloadWorkerStart(k) \/ DownloadWorkerFinish(k)

\* C10: the sampled IDs are pairwise distinct (every ID is in at most one
\* group, at most once), so no two download workers have the same image
\* path; and no step of a worker changes groups or metadata.
C10_NoPathCollision ==
    /\ [](/\ NoRepeat(Flatten([g \in 1..Len(groups) |-> groups[g].ids]))
          /\ NoRepeat(sampled)
          /\ \A j, k \in DOMAIN dl_futures :
               (j # k /\ dl_futures[j].img_path # <<>>
                      /\ dl_futures[k].img_path # <<>>) =>
                   dl_futures[j].img_path # dl_futures[k].img_path
          /\ \A k \in DOMAIN dl_futures :
               dl_futures[k].img_path # <<>> =>
                   dl_futures[k].img_path[3] = dl_futures[k].obj_id)
    /\ [][WorkerStep => UNCHANGED <<groups, metadata, sampled>>]_vars

\* two download workers run at once in the same period folder
C10_Witness ==
    \E j, k \in DOMAIN dl_futures :
        /\ j # k
        /\ dl_futures[j].state = "running"
        /\ dl_futures[k].state = "running"
        /\ dl_futures[j].img_path[2] = dl_futures[k].img_path[2]

=============================================================================
